---- MODULE Spec2Model ----
(***************************************************************************)
(* Telemetry aggregation, trend derivation and insight generation of the   *)
(* GlideWise server: the OBD trends route (server/src/routes/obd.js) and   *)
(* the analytics trends and insights routes with their helpers             *)
(* groupDataByInterval, groupTrendsByInterval, calculateTrendDirection and *)
(* generateInsights; the server's SocketService registry; and the mobile   *)
(* app's OBDService polling timer and LocationService route tracking.      *)
(*                                                                         *)
(* Instants are minutes since 1970-01-01T00:00Z.  An ISO-8601 string is    *)
(* the record [day, hour, min] of its UTC calendar fields (day = days      *)
(* since the epoch, a Thursday).  A JavaScript number is an exact rational *)
(* [num, den] in lowest terms; the three IEEE specials a division can      *)
(* produce are kept apart (see FDiv).                                      *)
(***************************************************************************)
EXTENDS Integers, Sequences, FiniteSets, TLC

-----------------------------------------------------------------------------
(* Bounds *)

\* longest series handed to an aggregator
MaxLen == 3
\* longest bucket sequence handed to the trend classifier
MaxBuckets == 9
\* most trips and most telemetry rows handed to the insight generator
MaxTrips == 2
MaxObd == 5
\* sockets that ever connect, and user ids they authenticate as
MaxSockets == 2
MaxUsers == 2
\* connectToDevice calls ever made
MaxConnects == 3
\* startTracking calls that start a route, and positions the watch delivers
\* to one route
MaxStarts == 2
MaxRoute == 2

\* interval tokens of the query string; "15m" stands for an unrecognised token
Intervals == {"raw", "1h", "6h", "1d", "1w", "15m"}
KnownIntervals == {"raw", "1h", "6h", "1d", "1w"}
\* offset of the server's local time from UTC, in minutes
TZOffsets == {0 - 300, 0, 330}
\* 1970-01-10 (Saturday), 1970-01-11 (Sunday), 1970-01-14 (Wednesday)
Days == {9, 10, 13}
\* 00:15, 10:15, 10:45, 19:00
TimesOfDay == {15, 615, 645, 1140}
\* Saturday at each time of day, Sunday 00:15 and 10:15, Wednesday 10:15 and 19:00
Instants ==
    {d * 1440 + m : d \in Days, m \in TimesOfDay}
        \ {10 * 1440 + 645, 10 * 1440 + 1140, 13 * 1440 + 15, 13 * 1440 + 645}
MetricValues == {1, 4}
\* SQL NULL in a metric column, apart from every metric value
NULL == 0 - 1
\* 1970-01-10 10:15 and 10:45, 1970-01-11 00:15
NullInstants == {9 * 1440 + 615, 9 * 1440 + 645, 10 * 1440 + 15}
\* bucket values: 21 is 5% above and 19 is 5% below the mean of 19 and 21
TrendValues == {0, 19, 21}

\* columns of the trips and obd_data rows the insight generator reads
EcoScores == {40, 60, 100}
Efficiencies == {8, 12}
\* a trip carries both figures or neither
TripRows ==
    [ecoScore : EcoScores, efficiency : Efficiencies]
        \cup {[ecoScore |-> NULL, efficiency |-> NULL]}
EngineRPMs == {2000, 4000}
ThrottlePositions == {50, 90}
\* a telemetry row carries both readings or neither
ObdRows ==
    [engineRPM : EngineRPMs, throttlePosition : ThrottlePositions]
        \cup {[engineRPM |-> NULL, throttlePosition |-> NULL]}

VARIABLES
    trips,        \* recentTrips of the insights route
    obdData,      \* recentOBD of the insights route
    table,        \* the user's rows of the queried table in time order
    series,       \* rows returned by the query: <<[timestamp, v]>>, ascending
    interval,     \* req.query.interval
    tzOffset,     \* local time = UTC + tzOffset
    pc,           \* "start" | "done"
    response,     \* body handed to sendSuccessResponse
    buckets,      \* input of calculateTrendDirection
    direction,    \* its result
    served,       \* what the invocations before the current one answered
    \* SocketService
    sockets,            \* socket id -> "new" | "connected" | "disconnected"
    connectedUsers,     \* Map userId -> socketId, entries in insertion order
    userRooms,          \* Map userId -> roomName, entries in insertion order
    joined,             \* socket id -> rooms the socket is in (socket.io)
    lastEmit,           \* event last emitted to a socket
    \* OBDService
    isConnected,
    connectedDevice,    \* NULL or the device
    dataInterval,       \* NULL or the id setInterval returned
    activeTimers,       \* ids of the intervals the runtime keeps firing
    connecting,         \* position of each connectToDevice call
    lastPoll,           \* id of the interval whose reading was delivered last
    \* LocationService
    isInitialized,
    isTracking,
    currentLocation,
    routeData,
    locationSubscription,   \* NULL or the watch id
    pendingFix,         \* getCurrentLocation calls of startTracking in flight
    finalRoute,         \* what the last stopTracking returned
    delivered,          \* locations handed to the service since the last start
    session             \* number of startTracking calls that started a route

requestVars == <<trips, obdData, table, series, interval, tzOffset, pc, response,
                 buckets, direction, served>>
socketVars == <<sockets, connectedUsers, userRooms, joined, lastEmit>>
obdVars == <<isConnected, connectedDevice, dataInterval, activeTimers, connecting, lastPoll>>
locationVars == <<isInitialized, isTracking, currentLocation, routeData,
                  locationSubscription, pendingFix, finalRoute, delivered, session>>

vars == <<requestVars, socketVars, obdVars, locationVars>>

-----------------------------------------------------------------------------
(* JavaScript numbers *)

Abs(x) == IF x < 0 THEN 0 - x ELSE x

RECURSIVE GCD(_, _)
GCD(a, b) == IF b = 0 THEN a ELSE GCD(b, a % b)

\* n / d for d # 0, in lowest terms with a positive denominator
Rat(n, d) ==
    LET g == GCD(Abs(n), Abs(d))
        s == IF d < 0 THEN 0 - 1 ELSE 1
    IN  [num |-> (s * n) \div g, den |-> (s * d) \div g]

Num(n) == Rat(n, 1)
RatAdd(a, b) == Rat(a.num * b.den + b.num * a.den, a.den * b.den)
RatSub(a, b) == Rat(a.num * b.den - b.num * a.den, a.den * b.den)
RatLess(a, b) == a.num * b.den < b.num * a.den

\* a / b in IEEE arithmetic: x/0 is +Infinity, -Infinity or NaN
FDiv(a, b) ==
    IF b.num # 0 THEN [kind |-> "finite", q |-> Rat(a.num * b.den, a.den * b.num)]
    ELSE IF a.num > 0 THEN [kind |-> "+inf"]
    ELSE IF a.num < 0 THEN [kind |-> "-inf"]
    ELSE [kind |-> "nan"]

\* f * n for a positive finite n
FMul(f, n) ==
    IF f.kind = "finite" THEN [kind |-> "finite", q |-> Rat(f.q.num * n, f.q.den)]
    ELSE f

\* FGreater with >= for >
FGreater_OrEqual(f, n) ==
    CASE f.kind = "finite" -> ~RatLess(f.q, Num(n))
      [] f.kind = "+inf"   -> TRUE
      [] OTHER             -> FALSE

\* f > n and f < n; every comparison with NaN is false
FGreater(f, n) ==
    CASE f.kind = "finite" -> RatLess(Num(n), f.q)
      [] f.kind = "+inf"   -> TRUE
      [] OTHER             -> FALSE

FLess(f, n) ==
    CASE f.kind = "finite" -> RatLess(f.q, Num(n))
      [] f.kind = "-inf"   -> TRUE
      [] OTHER             -> FALSE

-----------------------------------------------------------------------------
(* JavaScript Date *)

\* Date.prototype.toISOString: the UTC calendar fields
toISOString(t) ==
    [day |-> t \div 1440, hour |-> (t % 1440) \div 60, min |-> t % 60]

\* HourKey cutting the string at the date: slice(0, 10)
HourKey_Slice10(s) == [day |-> s.day, hour |-> 0, min |-> 0]

\* s.slice(0, 13) + ':00:00.000Z'
HourKey(s) == [day |-> s.day, hour |-> s.hour, min |-> 0]

\* DayKey cutting the string after the hour: slice(0, 13)
DayKey_Slice13(s) == [day |-> s.day, hour |-> s.hour, min |-> 0]

\* s.slice(0, 10) + 'T00:00:00.000Z'
DayKey(s) == [day |-> s.day, hour |-> 0, min |-> 0]

\* local-time getters
getHours(t) == ((t + tzOffset) % 1440) \div 60
\* getFullYear/getMonth/getDate taken together: the local calendar day
getLocalDate(t) == (t + tzOffset) \div 1440
\* 0 = Sunday; day 0 of the epoch is a Thursday
getDay(t) == (getLocalDate(t) + 4) % 7

\* new Date(year, month, date, hour): local midnight of the day plus hour
NewLocalDate(day, hour) == day * 1440 + hour * 60 - tzOffset

\* d.setDate(n) on a copy of t, n = getDate() - k: k local days earlier,
\* same local time of day
setDateBack(t, k) == t - k * 1440

\* the instant an ISO string denotes
ParseISO(s) == s.day * 1440 + s.hour * 60 + s.min

-----------------------------------------------------------------------------
(* Aggregation helpers *)

\* Math.floor(date.getHours() / 6) * 6, then new Date(y, m, d, hour).toISOString()
SixHourKey(t) ==
    LET hour == (getHours(t) \div 6) * 6
    IN  toISOString(NewLocalDate(getLocalDate(t), hour))

\* weekStart.setDate(date.getDate() - date.getDay()), then the UTC date of it
WeekKey(t) ==
    LET weekStart == setDateBack(t, getDay(t))
    IN  DayKey(toISOString(weekStart))

\* the switch of groupDataByInterval
ObdKey(t, iv) ==
    CASE iv = "1h" -> HourKey(toISOString(t))
      [] iv = "6h" -> SixHourKey(t)
      [] iv = "1d" -> DayKey(toISOString(t))
      [] OTHER     -> HourKey(toISOString(t))

\* the switch of groupTrendsByInterval
TrendsKey(t, iv) ==
    CASE iv = "1h" -> HourKey(toISOString(t))
      [] iv = "6h" -> SixHourKey(t)
      [] iv = "1d" -> DayKey(toISOString(t))
      [] iv = "1w" -> WeekKey(t)
      [] OTHER     -> DayKey(toISOString(t))

\* position of key in the entries of grouped, 0 when absent
IndexOfKey(grouped, key) ==
    IF \E j \in 1..Len(grouped) : grouped[j].key = key
    THEN CHOOSE j \in 1..Len(grouped) : grouped[j].key = key
    ELSE 0

\* PushGrouped resetting the list of a key it has already seen
PushGrouped_Overwrite(grouped, key, value) ==
    LET j == IndexOfKey(grouped, key)
    IN  IF j = 0
        THEN Append(grouped, [key |-> key, values |-> <<value>>])
        ELSE [grouped EXCEPT ![j].values = <<value>>]

\* if (!grouped[key]) grouped[key] = []; grouped[key].push(value)
\* grouped keeps its own keys in insertion order
PushGrouped(grouped, key, value) ==
    LET j == IndexOfKey(grouped, key)
    IN  IF j = 0
        THEN Append(grouped, [key |-> key, values |-> <<value>>])
        ELSE [grouped EXCEPT ![j].values = Append(@, value)]

\* data.forEach over the points from index i on
RECURSIVE ForEachPoint(_, _, _, _)
ForEachPoint(grouped, keys, data, i) ==
    IF i > Len(data) THEN grouped
    ELSE ForEachPoint(PushGrouped(grouped, keys[i], data[i].v), keys, data, i + 1)

\* the operand of + for a column value: null converts to 0
ToNumber(v) == IF v = NULL THEN 0 ELSE v

\* ReduceSum started from 1 instead of 0
RECURSIVE ReduceSum_FromOne(_, _)
ReduceSum_FromOne(values, i) ==
    IF i > Len(values) THEN 1
    ELSE ToNumber(values[i]) + ReduceSum_FromOne(values, i + 1)

\* values.reduce((sum, val) => sum + val, 0)
RECURSIVE ReduceSum(_, _)
ReduceSum(values, i) ==
    IF i > Len(values) THEN 0 ELSE ToNumber(values[i]) + ReduceSum(values, i + 1)

\* MapEntries closing the series with a synthesized zero bucket for the
\* hour after the last key
MapEntries_GapFilled(grouped) ==
    LET emitted == [j \in 1..Len(grouped) |->
                      [timestamp |-> grouped[j].key,
                       value     |-> Rat(ReduceSum(grouped[j].values, 1),
                                         Len(grouped[j].values)),
                       count     |-> Len(grouped[j].values)]]
    IN  IF Len(grouped) = 0 THEN emitted
        ELSE Append(emitted,
               [timestamp |-> toISOString(ParseISO(grouped[Len(grouped)].key) + 60),
                value     |-> Num(0),
                count     |-> 0])

\* Object.entries(grouped).map(([timestamp, values]) => ({timestamp, value, count}))
MapEntries(grouped) ==
    [j \in 1..Len(grouped) |->
        [timestamp |-> grouped[j].key,
         value     |-> Rat(ReduceSum(grouped[j].values, 1), Len(grouped[j].values)),
         count     |-> Len(grouped[j].values)]]

\* MapRaw walking the rows from the newest to the oldest
MapRaw_Reversed(data) ==
    [i \in 1..Len(data) |->
        [timestamp |-> data[Len(data) + 1 - i].timestamp,
         value     |-> Num(data[Len(data) + 1 - i].v)]]

\* the raw branch: data.map(point => ({timestamp, value}))
MapRaw(data) ==
    [i \in 1..Len(data) |->
        [timestamp |-> data[i].timestamp, value |-> Num(data[i].v)]]

groupDataByInterval(data, iv) ==
    IF iv = "raw" THEN MapRaw(data)
    ELSE LET keys == [i \in 1..Len(data) |-> ObdKey(data[i].timestamp, iv)]
         IN  MapEntries(ForEachPoint(<<>>, keys, data, 1))

groupTrendsByInterval(data, iv) ==
    IF iv = "raw" THEN MapRaw(data)
    ELSE LET keys == [i \in 1..Len(data) |-> TrendsKey(data[i].timestamp, iv)]
         IN  MapEntries(ForEachPoint(<<>>, keys, data, 1))

-----------------------------------------------------------------------------
(* Trend classification *)

\* Array.prototype.slice(start, end) with negative indices counted from the end
Slice(s, start, end) ==
    LET n  == Len(s)
        lo == IF start < 0 THEN (IF n + start < 0 THEN 0 ELSE n + start)
              ELSE (IF start > n THEN n ELSE start)
        hi == IF end < 0 THEN (IF n + end < 0 THEN 0 ELSE n + end)
              ELSE (IF end > n THEN n ELSE end)
    IN  IF hi <= lo THEN <<>> ELSE [k \in 1..(hi - lo) |-> s[lo + k]]

Min(a, b) == IF a < b THEN a ELSE b

\* reduce((sum, val) => sum + val, 0) over numbers
RECURSIVE ReduceSumNum(_, _)
ReduceSumNum(values, i) ==
    IF i > Len(values) THEN Num(0)
    ELSE RatAdd(values[i], ReduceSumNum(values, i + 1))

Average(values) ==
    LET s == ReduceSumNum(values, 1) IN Rat(s.num, s.den * Len(values))

\* ValuesOf reading each bucket's count in place of its value
ValuesOf_CountAsValue(data) == [i \in 1..Len(data) |-> Num(data[i].count)]

\* data.map(d => d.value)
ValuesOf(data) == [i \in 1..Len(data) |-> data[i].value]

recentValues(data) == ValuesOf(Slice(data, 0 - 5, Len(data)))
olderValues(data) == ValuesOf(Slice(data, 0, Min(5, Len(data) - 5)))

\* PercentChange reporting a rise of 100% from a zero baseline
PercentChange_ZeroGuard(recentAvg, olderAvg) ==
    IF olderAvg.num = 0 THEN [kind |-> "finite", q |-> Num(100)]
    ELSE FMul(FDiv(RatSub(recentAvg, olderAvg), olderAvg), 100)

\* ((recentAvg - olderAvg) / olderAvg) * 100
PercentChange(recentAvg, olderAvg) ==
    FMul(FDiv(RatSub(recentAvg, olderAvg), olderAvg), 100)

\* calculateTrendDirection answering short input with a fourth label
calculateTrendDirection_ShortUnknown(data) ==
    IF Len(data) < 2 THEN "unknown"
    ELSE IF Len(recentValues(data)) = 0 \/ Len(olderValues(data)) = 0 THEN "stable"
    ELSE LET change == PercentChange(Average(recentValues(data)),
                                     Average(olderValues(data)))
         IN  IF FGreater(change, 5) THEN "improving"
             ELSE IF FLess(change, 0 - 5) THEN "declining"
             ELSE "stable"

calculateTrendDirection(data) ==
    IF Len(data) < 2 THEN "stable"
    ELSE IF Len(recentValues(data)) = 0 \/ Len(olderValues(data)) = 0 THEN "stable"
    ELSE LET change == PercentChange(Average(recentValues(data)),
                                     Average(olderValues(data)))
         IN  IF FGreater(change, 5) THEN "improving"
             ELSE IF FLess(change, 0 - 5) THEN "declining"
             ELSE "stable"

-----------------------------------------------------------------------------
(* Inputs *)

Samples == [timestamp : Instants, v : MetricValues]

Ascending(s) == \A i \in 1..(Len(s) - 1) : s[i].timestamp <= s[i + 1].timestamp

\* what .orderBy(<time column>, 'asc') can return
SeriesInputs ==
    {s \in UNION {[1..n -> Samples] : n \in 0..MaxLen} : Ascending(s)}

\* rows of the table, the metric column nullable
Rows == [timestamp : NullInstants, v : MetricValues \cup {NULL}]

TableInputs ==
    {s \in UNION {[1..n -> Rows] : n \in 0..MaxLen} : Ascending(s)}

\* SelectRows keeping the rows whose metric is null
RECURSIVE SelectRows_NoFilter(_, _)
SelectRows_NoFilter(rows, i) ==
    IF i > Len(rows) THEN <<>>
    ELSE <<rows[i]>> \o SelectRows_NoFilter(rows, i + 1)

\* .whereNotNull(metric).orderBy(<time column>, 'asc').select(<time column>, metric)
\* over rows kept in time order
RECURSIVE SelectRows(_, _)
SelectRows(rows, i) ==
    IF i > Len(rows) THEN <<>>
    ELSE IF rows[i].v # NULL THEN <<rows[i]>> \o SelectRows(rows, i + 1)
    ELSE SelectRows(rows, i + 1)

\* bucket sequences as an aggregator emits them, one bucket a day
BucketInputs ==
    {[i \in 1..Len(vs) |->
        [timestamp |-> DayKey(toISOString(i * 1440)), value |-> Num(vs[i]), count |-> 1]] :
     vs \in UNION {[1..n -> TrendValues] : n \in 0..MaxBuckets}}

-----------------------------------------------------------------------------
(* State after construction *)

Sockets == 1..MaxSockets
Users == 1..MaxUsers
Calls == 1..MaxConnects
\* the one adapter the app connects to
Device == 1

\* currentLocation before the first fix
NoLocation == [session |-> 0, kind |-> "none"]

\* no invocation of a route or helper yet
RequestsIdle ==
    /\ trips = <<>>
    /\ obdData = <<>>
    /\ table = <<>>
    /\ series = <<>>
    /\ interval = "raw"
    /\ tzOffset = 0
    /\ pc = "start"
    /\ response = [route |-> "none"]
    /\ buckets = <<>>
    /\ direction = "none"
    /\ served = <<>>

\* new SocketService(), no client connected yet
SocketServiceNew ==
    /\ sockets = [s \in Sockets |-> "new"]
    /\ connectedUsers = <<>>
    /\ userRooms = <<>>
    /\ joined = [s \in Sockets |-> {}]
    /\ lastEmit = "none"

\* new OBDService()
OBDServiceNew ==
    /\ isConnected = FALSE
    /\ connectedDevice = NULL
    /\ dataInterval = NULL
    /\ activeTimers = {}
    /\ connecting = [c \in Calls |-> "idle"]
    /\ lastPoll = NULL

\* new LocationService()
LocationServiceNew ==
    /\ isInitialized = FALSE
    /\ isTracking = FALSE
    /\ currentLocation = NoLocation
    /\ routeData = <<>>
    /\ locationSubscription = NULL
    /\ pendingFix = {}
    /\ finalRoute = <<>>
    /\ delivered = <<>>
    /\ session = 0

MobileAndSocketsIdle == SocketServiceNew /\ OBDServiceNew /\ LocationServiceNew

-----------------------------------------------------------------------------
(* The trends routes *)

Init ==
    /\ table \in SeriesInputs
    /\ series = <<>>
    /\ interval \in Intervals
    /\ tzOffset \in TZOffsets
    /\ pc = "start"
    /\ response = [route |-> "none"]
    /\ buckets = <<>>
    /\ direction = "none"
    /\ trips = <<>>
    /\ obdData = <<>>
    /\ served = <<>>
    /\ MobileAndSocketsIdle

\* GET /api/obd/trends
GetObdTrends ==
    /\ pc = "start"
    /\ series' = SelectRows(table, 1)
    /\ response' = [route    |-> "obd",
                    status   |-> 200,
                    interval |-> interval,
                    data     |-> groupDataByInterval(series', interval)]
    /\ pc' = "done"
    /\ UNCHANGED <<trips, obdData, table, interval, tzOffset, buckets, direction,
                 served, socketVars, obdVars, locationVars>>

\* GET /api/analytics/trends
GetAnalyticsTrends ==
    /\ pc = "start"
    /\ series' = SelectRows(table, 1)
    /\ LET groupedData == groupTrendsByInterval(series', interval)
       IN  response' = [route          |-> "analytics",
                        status         |-> 200,
                        interval       |-> interval,
                        trendDirection |-> calculateTrendDirection(groupedData),
                        data           |-> groupedData]
    /\ pc' = "done"
    /\ UNCHANGED <<trips, obdData, table, interval, tzOffset, buckets, direction,
                 served, socketVars, obdVars, locationVars>>

Next == GetObdTrends \/ GetAnalyticsTrends

Spec == Init /\ [][Next]_vars

\* the same routes over tables whose metric column holds nulls
NullInit ==
    /\ table \in TableInputs
    /\ series = <<>>
    /\ interval \in Intervals
    /\ tzOffset \in TZOffsets
    /\ pc = "start"
    /\ response = [route |-> "none"]
    /\ buckets = <<>>
    /\ direction = "none"
    /\ trips = <<>>
    /\ obdData = <<>>
    /\ served = <<>>
    /\ MobileAndSocketsIdle

NullSpec == NullInit /\ [][Next]_vars

-----------------------------------------------------------------------------
(* The trend classifier on its own *)

TrendInit ==
    /\ buckets \in BucketInputs
    /\ direction = "none"
    /\ pc = "start"
    /\ table = <<>>
    /\ series = <<>>
    /\ interval = "raw"
    /\ tzOffset = 0
    /\ response = [route |-> "none"]
    /\ trips = <<>>
    /\ obdData = <<>>
    /\ served = <<>>
    /\ MobileAndSocketsIdle

\* Classify with the classifier reversing its argument in place
Classify_ReversesInput ==
    /\ pc = "start"
    /\ direction' = calculateTrendDirection(buckets)
    /\ buckets' = [i \in 1..Len(buckets) |-> buckets[Len(buckets) + 1 - i]]
    /\ pc' = "done"
    /\ UNCHANGED <<trips, obdData, table, series, interval, tzOffset, response,
                   served, socketVars, obdVars, locationVars>>

Classify ==
    /\ pc = "start"
    /\ direction' = calculateTrendDirection(buckets)
    /\ pc' = "done"
    /\ UNCHANGED <<trips, obdData, table, series, interval, tzOffset, response, buckets,
                 served, socketVars, obdVars, locationVars>>

TrendNext == Classify

TrendSpec == TrendInit /\ [][TrendNext]_vars

-----------------------------------------------------------------------------
(* Insight generation *)

\* values.filter(v => v !== null)
RECURSIVE FilterNotNull(_, _)
FilterNotNull(values, i) ==
    IF i > Len(values) THEN <<>>
    ELSE IF values[i] # NULL THEN <<values[i]>> \o FilterNotNull(values, i + 1)
    ELSE FilterNotNull(values, i + 1)

Insight(type, title, priority) ==
    [type |-> type, title |-> title, priority |-> priority]

\* EcoScoreInsights averaging over every trip, a null score adding 0
EcoScoreInsights_NoNullFilter(ts) ==
    IF Len(ts) > 0
    THEN LET ecoScores == [i \in 1..Len(ts) |-> ts[i].ecoScore]
             avgEcoScore == Rat(ReduceSum(ecoScores, 1), Len(ecoScores))
         IN  IF RatLess(avgEcoScore, Num(60))
             THEN <<Insight("warning", "Low Eco Score", "high")>>
             ELSE IF RatLess(Num(80), avgEcoScore)
             THEN <<Insight("success", "Excellent Driving", "low")>>
             ELSE <<>>
    ELSE <<>>

\* "Analyze eco score trends"
EcoScoreInsights(ts) ==
    IF Len(ts) > 0
    THEN LET ecoScores == FilterNotNull([i \in 1..Len(ts) |-> ts[i].ecoScore], 1)
         IN  IF Len(ecoScores) > 0
             THEN LET avgEcoScore == Rat(ReduceSum(ecoScores, 1), Len(ecoScores))
                  IN  IF RatLess(avgEcoScore, Num(60))
                      THEN <<Insight("warning", "Low Eco Score", "high")>>
                      ELSE IF RatLess(Num(80), avgEcoScore)
                      THEN <<Insight("success", "Excellent Driving", "low")>>
                      ELSE <<>>
             ELSE <<>>
    ELSE <<>>

\* EfficiencyInsights averaging over every trip, a null efficiency adding 0
EfficiencyInsights_NoNullFilter(ts) ==
    IF Len(ts) > 0
    THEN LET efficiencies == [i \in 1..Len(ts) |-> ts[i].efficiency]
             avgEfficiency == Rat(ReduceSum(efficiencies, 1), Len(efficiencies))
         IN  IF RatLess(Num(10), avgEfficiency)
             THEN <<Insight("warning", "High Fuel Consumption", "medium")>>
             ELSE <<>>
    ELSE <<>>

\* "Analyze efficiency trends"
EfficiencyInsights(ts) ==
    IF Len(ts) > 0
    THEN LET efficiencies == FilterNotNull([i \in 1..Len(ts) |-> ts[i].efficiency], 1)
         IN  IF Len(efficiencies) > 0
             THEN LET avgEfficiency == Rat(ReduceSum(efficiencies, 1), Len(efficiencies))
                  IN  IF RatLess(Num(10), avgEfficiency)
                      THEN <<Insight("warning", "High Fuel Consumption", "medium")>>
                      ELSE <<>>
             ELSE <<>>
    ELSE <<>>

\* v && v > limit: null and 0 are falsy
TruthyAbove(v, limit) == v # NULL /\ v # 0 /\ v > limit

\* filter(d => d.column && d.column > limit).length over the column's values
RECURSIVE CountAbove(_, _, _)
CountAbove(values, limit, i) ==
    IF i > Len(values) THEN 0
    ELSE (IF TruthyAbove(values[i], limit) THEN 1 ELSE 0) + CountAbove(values, limit, i + 1)

\* "Analyze OBD data patterns", engine speed
RpmInsights(od) ==
    IF Len(od) > 0
    THEN LET highRPMCount ==
                 CountAbove([i \in 1..Len(od) |-> od[i].engineRPM], 3000, 1)
             highRPMPercentage == FMul(FDiv(Num(highRPMCount), Num(Len(od))), 100)
         IN  IF FGreater(highRPMPercentage, 30)
             THEN <<Insight("tip", "High RPM Driving", "medium")>>
             ELSE <<>>
    ELSE <<>>

\* "Analyze OBD data patterns", throttle
ThrottleInsights(od) ==
    IF Len(od) > 0
    THEN LET aggressiveThrottleCount ==
                 CountAbove([i \in 1..Len(od) |-> od[i].throttlePosition], 80, 1)
             aggressiveThrottlePercentage ==
                 FMul(FDiv(Num(aggressiveThrottleCount), Num(Len(od))), 100)
         IN  IF FGreater(aggressiveThrottlePercentage, 20)
             THEN <<Insight("tip", "Aggressive Acceleration", "medium")>>
             ELSE <<>>
    ELSE <<>>

\* generateInsights pushing the general insight whatever the rules found
generateInsights_AlwaysFallback(ts, od) ==
    EcoScoreInsights(ts) \o EfficiencyInsights(ts)
        \o RpmInsights(od) \o ThrottleInsights(od)
        \o <<Insight("info", "Good Progress", "low")>>

\* generateInsights analysing the telemetry before the trips
generateInsights_TelemetryFirst(ts, od) ==
    LET specific == RpmInsights(od) \o ThrottleInsights(od)
                       \o EcoScoreInsights(ts) \o EfficiencyInsights(ts)
    IN  IF Len(specific) = 0
        THEN <<Insight("info", "Good Progress", "low")>>
        ELSE specific

\* generateInsights analysing the telemetry only of a user with trips
generateInsights_TelemetryNeedsTrips(ts, od) ==
    LET telemetry == IF Len(ts) > 0 THEN RpmInsights(od) \o ThrottleInsights(od)
                     ELSE <<>>
        specific == EcoScoreInsights(ts) \o EfficiencyInsights(ts) \o telemetry
    IN  IF Len(specific) = 0
        THEN <<Insight("info", "Good Progress", "low")>>
        ELSE specific

generateInsights(ts, od) ==
    LET specific == EcoScoreInsights(ts) \o EfficiencyInsights(ts)
                       \o RpmInsights(od) \o ThrottleInsights(od)
    IN  IF Len(specific) = 0
        THEN <<Insight("info", "Good Progress", "low")>>
        ELSE specific

\* rows in one fixed order of their column values: the insight rules only
\* count and sum, so one order stands for every order of the same rows
TripRank(t) == (t.ecoScore + 1) * 100 + (t.efficiency + 1)
ObdRank(d) == (d.engineRPM + 1) * 100 + (d.throttlePosition + 1)

TripInputs ==
    {s \in UNION {[1..n -> TripRows] : n \in 0..MaxTrips} :
        \A i \in 1..(Len(s) - 1) : TripRank(s[i]) <= TripRank(s[i + 1])}

\* twenty of the up to 100 rows the route reads: 8 above 3000 rpm (40%), 5 of
\* them above 80% throttle (25%)
MixedTelemetry ==
    [i \in 1..20 |->
        IF i <= 12 THEN [engineRPM |-> 2000, throttlePosition |-> 50]
        ELSE IF i <= 15 THEN [engineRPM |-> 4000, throttlePosition |-> 50]
        ELSE [engineRPM |-> 4000, throttlePosition |-> 90]]

ObdInputs ==
    {s \in UNION {[1..n -> ObdRows] : n \in 0..MaxObd} :
        \A i \in 1..(Len(s) - 1) : ObdRank(s[i]) <= ObdRank(s[i + 1])}
        \cup {MixedTelemetry}

InsightInit ==
    /\ trips \in TripInputs
    /\ obdData \in ObdInputs
    /\ pc = "start"
    /\ response = [route |-> "none"]
    /\ table = <<>>
    /\ series = <<>>
    /\ interval = "raw"
    /\ tzOffset = 0
    /\ buckets = <<>>
    /\ direction = "none"
    /\ served = <<>>
    /\ MobileAndSocketsIdle

\* GET /api/analytics/insights
GetInsights ==
    /\ pc = "start"
    /\ response' = [route    |-> "insights",
                    status   |-> 200,
                    insights |-> generateInsights(trips, obdData)]
    /\ pc' = "done"
    /\ UNCHANGED <<trips, obdData, table, series, interval, tzOffset, buckets, direction,
                 served, socketVars, obdVars, locationVars>>

InsightNext == GetInsights

InsightSpec == InsightInit /\ [][InsightNext]_vars

-----------------------------------------------------------------------------
(* Successive invocations in one server process *)

\* what one process is asked about: a series to aggregate, buckets to
\* classify, or trips and telemetry to analyse
RepeatTables == {s \in SeriesInputs : Len(s) <= MaxLen - 1}
RepeatBuckets == {b \in BucketInputs : Len(b) <= MaxBuckets - 3}
RepeatTrips == {t \in TripInputs : Len(t) <= MaxTrips - 1}
RepeatObd == {o \in ObdInputs : Len(o) <= MaxObd - 4}

ServerInit ==
    /\ \/ /\ table \in RepeatTables
          /\ interval = "1w"
          /\ tzOffset \in TZOffsets
          /\ buckets = <<>> /\ trips = <<>> /\ obdData = <<>>
       \/ /\ buckets \in RepeatBuckets
          /\ table = <<>> /\ interval = "raw" /\ tzOffset = 0
          /\ trips = <<>> /\ obdData = <<>>
       \/ /\ trips \in RepeatTrips
          /\ obdData \in RepeatObd
          /\ table = <<>> /\ interval = "raw" /\ tzOffset = 0
          /\ buckets = <<>>
    /\ series = <<>>
    /\ pc = "start"
    /\ response = [route |-> "none"]
    /\ direction = "none"
    /\ served = <<>>
    /\ MobileAndSocketsIdle

\* the handler has returned and the process takes up a second invocation,
\* whose locals are fresh
NextInvocation ==
    /\ pc = "done"
    /\ served = <<>>
    /\ served' = <<[response |-> response, direction |-> direction]>>
    /\ pc' = "start"
    /\ series' = <<>>
    /\ response' = [route |-> "none"]
    /\ direction' = "none"
    /\ UNCHANGED <<trips, obdData, table, interval, tzOffset, buckets,
                   socketVars, obdVars, locationVars>>

ServerNext ==
    \/ GetObdTrends
    \/ GetAnalyticsTrends
    \/ Classify
    \/ GetInsights
    \/ NextInvocation

ServerSpec == ServerInit /\ [][ServerNext]_vars

-----------------------------------------------------------------------------
(* SocketService: the registry of authenticated sockets *)

\* payload of an 'authenticate' event; NULL is a missing field
AuthData == [userId : Users \cup {NULL}, token : {NULL, 1}]

\* Map.prototype.has / set / delete over entries kept in insertion order
MapHas(m, k) == \E j \in 1..Len(m) : m[j].key = k

MapSet(m, k, v) ==
    IF MapHas(m, k)
    THEN [j \in 1..Len(m) |-> IF m[j].key = k THEN [key |-> k, value |-> v] ELSE m[j]]
    ELSE Append(m, [key |-> k, value |-> v])

RECURSIVE MapDelete(_, _)
MapDelete(m, k) ==
    IF Len(m) = 0 THEN <<>>
    ELSE IF Head(m).key = k THEN Tail(m)
    ELSE <<Head(m)>> \o MapDelete(Tail(m), k)

\* `user-${userId}`
RoomName(userId) == [room |-> "user", userId |-> userId]

\* the for..of loop with break: the first userId whose entry holds socketId,
\* NULL when there is none
RECURSIVE FindUserOfSocket(_, _, _)
FindUserOfSocket(m, socketId, j) ==
    IF j > Len(m) THEN NULL
    ELSE IF m[j].value = socketId THEN m[j].key
    ELSE FindUserOfSocket(m, socketId, j + 1)

\* io.on('connection'): the socket's handlers are registered
Connection(s) ==
    /\ sockets[s] = "new"
    /\ sockets' = [sockets EXCEPT ![s] = "connected"]
    /\ UNCHANGED <<connectedUsers, userRooms, joined, lastEmit>>
    /\ UNCHANGED <<requestVars, obdVars, locationVars>>

handleAuthentication(s, data) ==
    /\ sockets[s] = "connected"
    /\ IF data.userId = NULL \/ data.token = NULL
       THEN /\ lastEmit' = "auth-error"
            /\ UNCHANGED <<connectedUsers, userRooms, joined>>
       ELSE /\ connectedUsers' = MapSet(connectedUsers, data.userId, s)
            /\ joined' = [joined EXCEPT ![s] = @ \cup {RoomName(data.userId)}]
            /\ userRooms' = MapSet(userRooms, data.userId, RoomName(data.userId))
            /\ lastEmit' = "authenticated"
    /\ UNCHANGED sockets
    /\ UNCHANGED <<requestVars, obdVars, locationVars>>

\* socket.io drops the socket from its rooms, then runs the handler
handleDisconnection(s) ==
    /\ sockets[s] = "connected"
    /\ sockets' = [sockets EXCEPT ![s] = "disconnected"]
    /\ joined' = [joined EXCEPT ![s] = {}]
    /\ LET disconnectedUserId == FindUserOfSocket(connectedUsers, s, 1)
       IN  IF disconnectedUserId # NULL
           THEN /\ connectedUsers' = MapDelete(connectedUsers, disconnectedUserId)
                /\ userRooms' = MapDelete(userRooms, disconnectedUserId)
           ELSE UNCHANGED <<connectedUsers, userRooms>>
    /\ UNCHANGED lastEmit
    /\ UNCHANGED <<requestVars, obdVars, locationVars>>

SocketInit == RequestsIdle /\ MobileAndSocketsIdle

SocketNext ==
    \/ \E s \in Sockets : Connection(s)
    \/ \E s \in Sockets, data \in AuthData : handleAuthentication(s, data)
    \/ \E s \in Sockets : handleDisconnection(s)

SocketSpec == SocketInit /\ [][SocketNext]_vars

-----------------------------------------------------------------------------
(* OBDService: connection and polling timer *)

\* connectToDevice calls suspended at one of their two awaits
InFlight == {c \in Calls : connecting[c] \in {"connect", "discover"}}

\* connectToDevice up to `await device.connect()`; calls are numbered in the
\* order they are made
connectToDevice(c) ==
    /\ connecting[c] = "idle"
    /\ \A b \in Calls : b < c => connecting[b] # "idle"
    /\ connecting' = [connecting EXCEPT ![c] = "connect"]
    /\ UNCHANGED <<isConnected, connectedDevice, dataInterval, activeTimers, lastPoll>>
    /\ UNCHANGED <<requestVars, socketVars, locationVars>>

\* device.connect() resolved; on to `await discoverAllServicesAndCharacteristics()`
ConnectResolved(c) ==
    /\ connecting[c] = "connect"
    /\ connecting' = [connecting EXCEPT ![c] = "discover"]
    /\ UNCHANGED <<isConnected, connectedDevice, dataInterval, activeTimers, lastPoll>>
    /\ UNCHANGED <<requestVars, socketVars, locationVars>>

\* either await rejected: catch, return false
ConnectRejected(c) ==
    /\ c \in InFlight
    /\ connecting' = [connecting EXCEPT ![c] = "false"]
    /\ UNCHANGED <<isConnected, connectedDevice, dataInterval, activeTimers, lastPoll>>
    /\ UNCHANGED <<requestVars, socketVars, locationVars>>

\* discovery resolved: the rest of connectToDevice with startDataPolling,
\* whose setInterval returns a fresh id (the number of the call)
DiscoverResolved(c) ==
    /\ connecting[c] = "discover"
    /\ connectedDevice' = Device
    /\ isConnected' = TRUE
    /\ dataInterval' = c
    /\ activeTimers' = activeTimers \cup {c}
    /\ connecting' = [connecting EXCEPT ![c] = "true"]
    /\ UNCHANGED lastPoll
    /\ UNCHANGED <<requestVars, socketVars, locationVars>>

\* the setInterval callback of interval t: readOBDData gives null without a
\* device, otherwise the reading is handed to onDataCallback
PollTick(t) ==
    /\ t \in activeTimers
    /\ lastPoll' = IF connectedDevice # NULL THEN t ELSE lastPoll
    /\ UNCHANGED <<isConnected, connectedDevice, dataInterval, activeTimers, connecting>>
    /\ UNCHANGED <<requestVars, socketVars, locationVars>>

disconnect ==
    /\ IF dataInterval # NULL
       THEN /\ activeTimers' = activeTimers \ {dataInterval}
            /\ dataInterval' = NULL
       ELSE UNCHANGED <<activeTimers, dataInterval>>
    /\ connectedDevice' = NULL
    /\ isConnected' = FALSE
    /\ UNCHANGED <<connecting, lastPoll>>
    /\ UNCHANGED <<requestVars, socketVars, locationVars>>

OBDInit == RequestsIdle /\ MobileAndSocketsIdle

OBDNext ==
    \/ \E c \in Calls : connectToDevice(c)
    \/ \E c \in Calls : ConnectResolved(c)
    \/ \E c \in Calls : ConnectRejected(c)
    \/ \E c \in Calls : DiscoverResolved(c)
    \/ \E t \in Calls : PollTick(t)
    \/ disconnect

OBDSpec == OBDInit /\ [][OBDNext]_vars

-----------------------------------------------------------------------------
(* LocationService: route tracking *)

\* a position, labelled with the startTracking call that asked for it
Fix(k) == [session |-> k, kind |-> "fix"]
Watched(k, n) == [session |-> k, kind |-> "watch", n |-> n]

\* positions the watch has delivered to the current route
WatchCount == Cardinality({i \in 1..Len(delivered) : delivered[i].kind = "watch"})

\* initialize(): the permission request granted or denied
initialize(granted) ==
    /\ ~isInitialized
    /\ isInitialized' = granted
    /\ UNCHANGED <<isTracking, currentLocation, routeData, locationSubscription,
                   pendingFix, finalRoute, delivered, session>>
    /\ UNCHANGED <<requestVars, socketVars, obdVars>>

\* startTracking(): returns at once unless initialized and not tracking;
\* getCurrentLocation() is left pending, the watch id is the call's number
startTracking ==
    /\ session < MaxStarts
    /\ IF ~isInitialized \/ isTracking
       THEN UNCHANGED locationVars
       ELSE /\ isTracking' = TRUE
            /\ routeData' = <<>>
            /\ pendingFix' = pendingFix \cup {session + 1}
            /\ locationSubscription' = session + 1
            /\ session' = session + 1
            /\ delivered' = <<>>
            /\ UNCHANGED <<isInitialized, currentLocation, finalRoute>>
    /\ UNCHANGED <<requestVars, socketVars, obdVars>>

\* the getCurrentPosition success callback of call k and the .then of
\* startTracking that follows it
FixResolved(k) ==
    /\ k \in pendingFix
    /\ pendingFix' = pendingFix \ {k}
    /\ currentLocation' = Fix(k)
    /\ routeData' = Append(routeData, Fix(k))
    /\ delivered' = IF isTracking /\ k = session THEN Append(delivered, Fix(k))
                    ELSE delivered
    /\ UNCHANGED <<isInitialized, isTracking, locationSubscription, finalRoute, session>>
    /\ UNCHANGED <<requestVars, socketVars, obdVars>>

\* the getCurrentPosition error callback: the promise rejects, .then is skipped
FixRejected(k) ==
    /\ k \in pendingFix
    /\ pendingFix' = pendingFix \ {k}
    /\ UNCHANGED <<isInitialized, isTracking, currentLocation, routeData,
                   locationSubscription, finalRoute, delivered, session>>
    /\ UNCHANGED <<requestVars, socketVars, obdVars>>

\* the watchPosition success callback, delivered while the watch is set
WatchCallback ==
    /\ locationSubscription # NULL
    /\ WatchCount < MaxRoute
    /\ LET location == Watched(locationSubscription, WatchCount + 1)
       IN  /\ currentLocation' = location
           /\ routeData' = Append(routeData, location)
           /\ delivered' = Append(delivered, location)
    /\ UNCHANGED <<isInitialized, isTracking, locationSubscription, pendingFix,
                   finalRoute, session>>
    /\ UNCHANGED <<requestVars, socketVars, obdVars>>

stopTracking ==
    /\ locationSubscription' = NULL
    /\ isTracking' = FALSE
    /\ finalRoute' = routeData
    /\ routeData' = <<>>
    /\ UNCHANGED <<isInitialized, currentLocation, pendingFix, delivered, session>>
    /\ UNCHANGED <<requestVars, socketVars, obdVars>>

LocationInit == RequestsIdle /\ MobileAndSocketsIdle

LocationNext ==
    \/ \E granted \in BOOLEAN : initialize(granted)
    \/ startTracking
    \/ \E k \in 1..MaxStarts : FixResolved(k)
    \/ \E k \in 1..MaxStarts : FixRejected(k)
    \/ WatchCallback
    \/ stopTracking

LocationSpec == LocationInit /\ [][LocationNext]_vars

-----------------------------------------------------------------------------
(* Properties of the aggregators *)

Done == pc = "done" /\ response.route \in {"obd", "analytics"}
Data == response.data
BucketingIntervals == {"1h", "6h", "1d", "1w"}

\* the key the answering route computed for instant t
RouteKey(t) ==
    IF response.route = "obd" THEN ObdKey(t, interval) ELSE TrendsKey(t, interval)

\* indices of the samples whose instant satisfies P
SamplesWhere(P(_)) == {i \in 1..Len(series) : P(series[i].timestamp)}

RECURSIVE SumCounts(_, _)
SumCounts(bs, j) == IF j > Len(bs) THEN 0 ELSE bs[j].count + SumCounts(bs, j + 1)

RECURSIVE SumOver(_)
SumOver(S) ==
    IF S = {} THEN 0
    ELSE LET i == CHOOSE x \in S : TRUE IN series[i].v + SumOver(S \ {i})

\* UTC references, computed from the instant alone
UtcHourStart(t) == (t \div 60) * 60
UtcDayStart(t) == (t \div 1440) * 1440
UtcSixHourStart(t) == (t \div 360) * 360
UtcSundayStart(t) == ((t \div 1440) - (((t \div 1440) + 4) % 7)) * 1440

\* C1: for a non-empty ascending series and a bucketing interval (1h, 6h, 1d,
\* 1w), each sample lies in exactly one emitted bucket and the buckets'
\* counts add up to the length of the series.
C1_BucketCoverage ==
    (Done /\ interval \in BucketingIntervals /\ Len(series) > 0) =>
        /\ SumCounts(Data, 1) = Len(series)
        /\ \A i \in 1..Len(series) :
              Cardinality({j \in 1..Len(Data) :
                              Data[j].timestamp = RouteKey(series[i].timestamp)}) = 1

C1_Witness ==
    /\ Done /\ interval = "6h" /\ Len(series) = 3 /\ Len(Data) = 2
    /\ tzOffset = 330

OlderMeanIsZero ==
    /\ Len(olderValues(buckets)) > 0
    /\ Average(olderValues(buckets)) = Num(0)

\* C3: a sequence of 6 or more buckets whose older window averages to zero
\* classifies as stable, whatever the recent values are.
C3_ZeroOlderMeanIsStable ==
    (pc = "done" /\ Len(buckets) >= 6 /\ OlderMeanIsZero) => direction = "stable"

\* C4: for interval '1w' every bucket is keyed at 00:00 UTC of a Sunday and
\* counts exactly the samples of the week starting there, on both routes and
\* for every offset of the server's local time.
C4_WeeklyAlignment ==
    (Done /\ interval = "1w") =>
        /\ \A j \in 1..Len(Data) :
              LET start == ParseISO(Data[j].timestamp)
                  InWeek(t) == UtcSundayStart(t) = start
              IN  /\ UtcSundayStart(start) = start
                  /\ Data[j].count = Cardinality(SamplesWhere(InWeek))
        /\ \A i \in 1..Len(series) :
              \E j \in 1..Len(Data) :
                  ParseISO(Data[j].timestamp) = UtcSundayStart(series[i].timestamp)

\* C5: for interval '6h' every bucket is keyed at 00:00, 06:00, 12:00 or 18:00
\* UTC and counts exactly the samples of the six hours starting there, for
\* every offset of the server's local time.
C5_SixHourAlignment ==
    (Done /\ interval = "6h") =>
        /\ \A j \in 1..Len(Data) :
              LET start == ParseISO(Data[j].timestamp)
                  InSlot(t) == UtcSixHourStart(t) = start
              IN  /\ Data[j].timestamp.hour \in {0, 6, 12, 18}
                  /\ Data[j].timestamp.min = 0
                  /\ Data[j].count = Cardinality(SamplesWhere(InSlot))
        /\ \A i \in 1..Len(series) :
              \E j \in 1..Len(Data) :
                  ParseISO(Data[j].timestamp) = UtcSixHourStart(series[i].timestamp)

\* C6: for interval '1h' the samples of one UTC clock hour share the single
\* bucket keyed at :00 of that hour, samples of different hours lie in
\* different buckets, and a bucket holding k samples reports count k.
C6_HourlyAlignment ==
    (Done /\ interval = "1h") =>
        /\ \A j \in 1..Len(Data) :
              LET start == ParseISO(Data[j].timestamp)
                  InHour(t) == UtcHourStart(t) = start
              IN  /\ Data[j].timestamp.min = 0
                  /\ Data[j].count = Cardinality(SamplesWhere(InHour))
                  /\ Data[j].count > 0
        /\ \A j, k \in 1..Len(Data) :
              j # k => Data[j].timestamp # Data[k].timestamp
        /\ \A i \in 1..Len(series) :
              \E j \in 1..Len(Data) :
                  ParseISO(Data[j].timestamp) = UtcHourStart(series[i].timestamp)

\* samples at 10:15 and 10:45 of one day and one at 19:00, two buckets
C6_Witness ==
    /\ Done /\ interval = "1h" /\ Len(series) = 3 /\ Len(Data) = 2
    /\ series[1].timestamp % 1440 = 615
    /\ series[2].timestamp = series[1].timestamp + 30
    /\ Data[1].count = 2
    /\ tzOffset = 330

\* C7: for interval '1d' every bucket is keyed at 00:00 UTC of a day and
\* counts exactly the samples of that UTC date, so two samples share a bucket
\* exactly when they share a UTC date.
C7_DailyAlignment ==
    (Done /\ interval = "1d") =>
        /\ \A j \in 1..Len(Data) :
              LET start == ParseISO(Data[j].timestamp)
                  InDay(t) == UtcDayStart(t) = start
              IN  /\ Data[j].timestamp.hour = 0
                  /\ Data[j].timestamp.min = 0
                  /\ Data[j].count = Cardinality(SamplesWhere(InDay))
                  /\ Data[j].count > 0
        /\ \A j, k \in 1..Len(Data) :
              j # k => Data[j].timestamp # Data[k].timestamp
        /\ \A i \in 1..Len(series) :
              \E j \in 1..Len(Data) :
                  ParseISO(Data[j].timestamp) = UtcDayStart(series[i].timestamp)

\* 19:00 UTC is already the next local day at +05:30, still the same bucket
C7_Witness ==
    /\ Done /\ interval = "1d" /\ Len(series) = 3 /\ Len(Data) = 2
    /\ tzOffset = 330
    /\ series[1].timestamp % 1440 = 645
    /\ series[2].timestamp = series[1].timestamp + 495
    /\ Data[1].count = 2

\* C8: a request with an unrecognised interval token is answered with an
\* error and never with buckets.
C8_UnknownIntervalRejected ==
    (Done /\ interval \notin KnownIntervals) =>
        /\ response.status = 400
        /\ "data" \notin DOMAIN response

\* C9: for an ascending series and a bucketing interval the emitted buckets
\* are in strictly ascending order of bucket start (so no key appears twice).
C9_BucketsAscending ==
    (Done /\ interval \in BucketingIntervals) =>
        \A j, k \in 1..Len(Data) :
            j < k => ParseISO(Data[j].timestamp) < ParseISO(Data[k].timestamp)

\* C10: each bucket's mean is the sum of the values of exactly the samples
\* whose key is the bucket's key, divided by the bucket's count.
C10_BucketMean ==
    (Done /\ interval \in BucketingIntervals) =>
        \A j \in 1..Len(Data) :
            LET HasKey(t) == RouteKey(t) = Data[j].timestamp
                members == SamplesWhere(HasKey)
            IN  /\ Data[j].count = Cardinality(members)
                /\ Data[j].count > 0
                /\ Data[j].value.num * Data[j].count = SumOver(members) * Data[j].value.den

\* a bucket of two samples with different values: mean 5/2
C10_Witness ==
    /\ Done /\ interval \in BucketingIntervals
    /\ \E j \in 1..Len(Data) :
          Data[j].count = 2 /\ Data[j].value = [num |-> 5, den |-> 2]

\* nominal width of a bucketing interval, in minutes
IntervalWidth(iv) ==
    CASE iv = "1h" -> 60
      [] iv = "6h" -> 360
      [] iv = "1d" -> 1440
      [] iv = "1w" -> 7 * 1440

\* C11: for every series and every interval token no emitted bucket has count
\* 0, and every emitted bucket is the bucket of at least one sample, which
\* lies within the interval's width of the bucket start; a raw entry is the
\* entry of a sample.
C11_NoEmptyBuckets ==
    Done =>
        \A j \in 1..Len(Data) :
            IF interval = "raw"
            THEN \E i \in 1..Len(series) : series[i].timestamp = Data[j].timestamp
            ELSE /\ Data[j].count >= 1
                 /\ \E i \in 1..Len(series) :
                       /\ RouteKey(series[i].timestamp) = Data[j].timestamp
                       /\ interval \in BucketingIntervals =>
                             /\ ParseISO(Data[j].timestamp) <= series[i].timestamp
                             /\ series[i].timestamp <
                                   ParseISO(Data[j].timestamp) + IntervalWidth(interval)

\* samples on Saturday and on Wednesday only: no bucket for the days between
C11_Witness ==
    /\ Done /\ interval = "1d" /\ Len(Data) = 2 /\ Len(series) = 3
    /\ Data[1].timestamp.day = 9
    /\ Data[2].timestamp.day = 13

\* C12: an empty series gives an empty bucket sequence for every interval
\* token, answered without error, and the analytics route classifies it as
\* stable.
C12_EmptySeries ==
    (Done /\ Len(series) = 0) =>
        /\ Data = <<>>
        /\ response.status = 200
        /\ response.route = "analytics" => response.trendDirection = "stable"

C12_Witness ==
    /\ Done /\ table = <<>> /\ series = <<>>
    /\ response.route = "analytics" /\ interval = "1w"
    /\ response.trendDirection = "stable"

\* rows of the table with a metric value whose instant satisfies P
NonNullRowsWhere(P(_)) ==
    {i \in 1..Len(table) : table[i].v # NULL /\ P(table[i].timestamp)}

RECURSIVE SumRows(_)
SumRows(S) ==
    IF S = {} THEN 0
    ELSE LET i == CHOOSE x \in S : TRUE IN table[i].v + SumRows(S \ {i})

AnyInstant(t) == TRUE

\* C13: rows whose metric is null are left out before bucketing: every
\* bucket counts exactly the non-null rows with its key, its mean is the
\* mean of their values (a number, never NaN, nulls not counted as 0), and a
\* raw answer has one entry per non-null row.
C13_NullsExcluded ==
    Done =>
        /\ Len(series) = Cardinality(NonNullRowsWhere(AnyInstant))
        /\ \A i \in 1..Len(series) : series[i].v # NULL
        /\ IF interval = "raw"
           THEN /\ Len(Data) = Len(series)
                /\ \A j \in 1..Len(Data) :
                      \E i \in NonNullRowsWhere(AnyInstant) :
                          /\ Data[j].timestamp = table[i].timestamp
                          /\ Data[j].value = Num(table[i].v)
           ELSE \A j \in 1..Len(Data) :
                    LET HasKey(t) == RouteKey(t) = Data[j].timestamp
                        members == NonNullRowsWhere(HasKey)
                    IN  /\ Data[j].count = Cardinality(members)
                        /\ Data[j].count > 0
                        /\ Data[j].value.den > 0
                        /\ Data[j].value.num * Data[j].count
                              = SumRows(members) * Data[j].value.den

\* a null row in the hour of two rows with values
C13_Witness ==
    /\ Done /\ interval = "1h" /\ Len(table) = 3 /\ Len(series) = 2
    /\ table[2].v = NULL
    /\ table[1].timestamp = table[2].timestamp
    /\ Len(Data) = 1 /\ Data[1].count = 2

-----------------------------------------------------------------------------
(* Properties of the trend classifier *)

Classified == pc = "done" /\ direction # "none"
NBuckets == Len(buckets)

\* the positions the classifier's windows take from a sequence of length n
PositionsOf(n) == [i \in 1..n |-> [value |-> i]]
RecentPositions(n) ==
    {recentValues(PositionsOf(n))[k] : k \in 1..Len(recentValues(PositionsOf(n)))}
OlderPositions(n) ==
    {olderValues(PositionsOf(n))[k] : k \in 1..Len(olderValues(PositionsOf(n)))}

\* C14: for N buckets the recent window is the last min(5, N) positions, the
\* older window the first min(5, N - 5) positions (none for N <= 5), and the
\* two windows share no position.
C14_TrendWindows ==
    Classified =>
        /\ RecentPositions(NBuckets) = (NBuckets - Min(5, NBuckets) + 1)..NBuckets
        /\ OlderPositions(NBuckets) = 1..Min(5, NBuckets - 5)
        /\ RecentPositions(NBuckets) \cap OlderPositions(NBuckets) = {}

\* C15: every sequence of at most 5 buckets classifies as stable, whatever
\* its values.
C15_ShortSeriesStable ==
    (Classified /\ NBuckets <= 5) => direction = "stable"

\* integer value of bucket i of the classifier's input
BucketValue(i) == buckets[i].value.num

RECURSIVE SumBuckets(_, _)
SumBuckets(lo, hi) ==
    IF lo > hi THEN 0 ELSE BucketValue(lo) + SumBuckets(lo + 1, hi)

\* for N >= 6: sum and size of the first min(5, N - 5) and of the last 5 values
OlderSize == Min(5, NBuckets - 5)
OlderSum == SumBuckets(1, OlderSize)
RecentSum == SumBuckets(NBuckets - 4, NBuckets)
\* percentChange = ChangeNum / ChangeDen * 100, ChangeDen > 0 when OlderSum > 0
ChangeNum == RecentSum * OlderSize - OlderSum * 5
ChangeDen == OlderSum * 5

\* C16: with both windows non-empty (N >= 6) and a non-zero older mean the
\* result is improving exactly when percentChange > 5, declining exactly
\* when percentChange < -5, and stable otherwise, +5 and -5 included.
C16_TrendThresholds ==
    (Classified /\ NBuckets >= 6 /\ OlderSum > 0) =>
        /\ direction = "improving" <=> 100 * ChangeNum > 5 * ChangeDen
        /\ direction = "declining" <=> 100 * ChangeNum < (0 - 5) * ChangeDen
        /\ direction = "stable" <=>
              /\ 100 * ChangeNum <= 5 * ChangeDen
              /\ 100 * ChangeNum >= (0 - 5) * ChangeDen

\* nine buckets, recent mean exactly 5% above the older mean
C16_Witness ==
    /\ Classified /\ NBuckets = 9 /\ OlderSum > 0
    /\ 100 * ChangeNum = 5 * ChangeDen
    /\ direction = "stable"

AllEqual == \A i, j \in 1..NBuckets : buckets[i].value = buckets[j].value

\* C17: a bucket sequence whose values are all equal classifies as stable,
\* for every length and every common value, 0 included.
C17_FlatIsStable ==
    (Classified /\ AllEqual) => direction = "stable"

\* six buckets of value 0: 0 / 0 is NaN, neither > 5 nor < -5
C17_Witness ==
    /\ Classified /\ NBuckets = 6 /\ AllEqual
    /\ BucketValue(1) = 0
    /\ direction = "stable"

-----------------------------------------------------------------------------
(* Properties of the insight generator *)

Answered == pc = "done" /\ response.route = "insights"
Insights == response.insights
HasInsight(title) == \E k \in 1..Len(Insights) : Insights[k].title = title

ObdWhere(P(_)) == {i \in 1..Len(obdData) : P(obdData[i])}
HasRPM(d) == d.engineRPM # NULL
HighRPM(d) == d.engineRPM # NULL /\ d.engineRPM > 3000
HasThrottle(d) == d.throttlePosition # NULL
HighThrottle(d) == d.throttlePosition # NULL /\ d.throttlePosition > 80

\* C18: 'High RPM Driving' is emitted exactly when the rows with engineRPM >
\* 3000 are more than 30% of the rows with a non-null engineRPM.
C18_RpmRatioOverNonNull ==
    Answered =>
        (HasInsight("High RPM Driving") <=>
            /\ Cardinality(ObdWhere(HasRPM)) > 0
            /\ 10 * Cardinality(ObdWhere(HighRPM)) > 3 * Cardinality(ObdWhere(HasRPM)))

\* C19: 'Aggressive Acceleration' is emitted exactly when the rows with
\* throttlePosition > 80 are more than 20% of the rows with a non-null
\* throttlePosition.
C19_ThrottleRatioOverNonNull ==
    Answered =>
        (HasInsight("Aggressive Acceleration") <=>
            /\ Cardinality(ObdWhere(HasThrottle)) > 0
            /\ 5 * Cardinality(ObdWhere(HighThrottle)) > Cardinality(ObdWhere(HasThrottle)))

ScoredTrips == {i \in 1..Len(trips) : trips[i].ecoScore # NULL}

RECURSIVE SumEcoScores(_)
SumEcoScores(S) ==
    IF S = {} THEN 0
    ELSE LET i == CHOOSE x \in S : TRUE IN trips[i].ecoScore + SumEcoScores(S \ {i})

\* C20: with at least one non-null ecoScore the mean is taken over the
\* non-null scores only; 'Low Eco Score' (warning, high) is emitted exactly
\* when it is < 60, 'Excellent Driving' (success, low) exactly when it is >
\* 80, neither in [60, 80] nor without a score, and never both.
C20_EcoScoreRule ==
    Answered =>
        LET n == Cardinality(ScoredTrips)
            total == SumEcoScores(ScoredTrips)
        IN  /\ HasInsight("Low Eco Score") <=> (n > 0 /\ total < 60 * n)
            /\ HasInsight("Excellent Driving") <=> (n > 0 /\ total > 80 * n)
            /\ ~(HasInsight("Low Eco Score") /\ HasInsight("Excellent Driving"))
            /\ \A k \in 1..Len(Insights) :
                  /\ Insights[k].title = "Low Eco Score" =>
                        Insights[k].type = "warning" /\ Insights[k].priority = "high"
                  /\ Insights[k].title = "Excellent Driving" =>
                        Insights[k].type = "success" /\ Insights[k].priority = "low"

\* a scored trip of 100 beside an unscored one: mean 100, not 50
C20_Witness ==
    /\ Answered /\ Len(trips) = 2
    /\ Cardinality(ScoredTrips) = 1
    /\ \E i \in ScoredTrips : trips[i].ecoScore = 100
    /\ HasInsight("Excellent Driving")

RatedTrips == {i \in 1..Len(trips) : trips[i].efficiency # NULL}

RECURSIVE SumEfficiencies(_)
SumEfficiencies(S) ==
    IF S = {} THEN 0
    ELSE LET i == CHOOSE x \in S : TRUE IN trips[i].efficiency + SumEfficiencies(S \ {i})

\* C21: 'High Fuel Consumption' (warning, medium) is emitted exactly when at
\* least one trip has a non-null efficiency and the mean over the non-null
\* efficiencies is > 10; trips with a null efficiency do not enter the mean.
C21_EfficiencyRule ==
    Answered =>
        LET n == Cardinality(RatedTrips)
            total == SumEfficiencies(RatedTrips)
        IN  /\ HasInsight("High Fuel Consumption") <=> (n > 0 /\ total > 10 * n)
            /\ \A k \in 1..Len(Insights) :
                  Insights[k].title = "High Fuel Consumption" =>
                      Insights[k].type = "warning" /\ Insights[k].priority = "medium"

\* a trip at 12 beside one without a figure: mean 12, not 6
C21_Witness ==
    /\ Answered /\ Len(trips) = 2
    /\ Cardinality(RatedTrips) = 1
    /\ \E i \in RatedTrips : trips[i].efficiency = 12
    /\ HasInsight("High Fuel Consumption")

TripTitles == {"Low Eco Score", "Excellent Driving", "High Fuel Consumption"}
TelemetryTitles == {"High RPM Driving", "Aggressive Acceleration"}
RuleTitles == TripTitles \cup TelemetryTitles
GoodProgress == [type |-> "info", title |-> "Good Progress", priority |-> "low"]

\* C22: the list of insights is never empty; 'Good Progress' (info, low) is
\* present exactly when no insight of rules 1-4 is, and is then the only
\* insight; empty trips and empty telemetry give exactly that one insight.
C22_Fallback ==
    Answered =>
        /\ Len(Insights) >= 1
        /\ HasInsight("Good Progress") <=>
              ~\E k \in 1..Len(Insights) : Insights[k].title \in RuleTitles
        /\ HasInsight("Good Progress") => Insights = <<GoodProgress>>
        /\ (trips = <<>> /\ obdData = <<>>) => Insights = <<GoodProgress>>

C22_Witness ==
    /\ Answered /\ trips = <<>> /\ obdData = <<>>
    /\ Insights = <<GoodProgress>>

\* position of a title in the fixed rule order
TitleRank(title) ==
    CASE title \in {"Low Eco Score", "Excellent Driving"} -> 1
      [] title = "High Fuel Consumption"                   -> 2
      [] title = "High RPM Driving"                        -> 3
      [] title = "Aggressive Acceleration"                 -> 4
      [] OTHER                                             -> 5

TitlesOf(ins) == [k \in 1..Len(ins) |-> ins[k].title]

\* mean ecoScore 50, mean efficiency 12, 40% of the rows above 3000 rpm and
\* 25% of the rows above 80% throttle
OrderingExample ==
    /\ Cardinality(ScoredTrips) > 0
    /\ SumEcoScores(ScoredTrips) = 50 * Cardinality(ScoredTrips)
    /\ Cardinality(RatedTrips) > 0
    /\ SumEfficiencies(RatedTrips) = 12 * Cardinality(RatedTrips)
    /\ Len(obdData) > 0
    /\ 5 * Cardinality(ObdWhere(HighRPM)) = 2 * Len(obdData)
    /\ 4 * Cardinality(ObdWhere(HighThrottle)) = Len(obdData)

\* C23: the insights appear in the fixed rule order (eco-score insight, High
\* Fuel Consumption, High RPM Driving, Aggressive Acceleration), each title
\* at most once, at most 4 of them; the example input yields exactly Low Eco
\* Score, High Fuel Consumption, High RPM Driving, Aggressive Acceleration.
C23_InsightOrder ==
    Answered =>
        /\ \A j, k \in 1..Len(Insights) :
              j < k => TitleRank(Insights[j].title) < TitleRank(Insights[k].title)
        /\ Len(Insights) <= 4
        /\ OrderingExample =>
              TitlesOf(Insights) = <<"Low Eco Score", "High Fuel Consumption",
                                     "High RPM Driving", "Aggressive Acceleration">>

C23_Witness ==
    /\ Answered /\ OrderingExample
    /\ Len(obdData) = 20 /\ Len(Insights) = 4
    /\ Insights[1].title = "Low Eco Score"
    /\ Insights[4].title = "Aggressive Acceleration"

\* titles of T among the insights ins
TitlesAmong(ins, T) == {ins[k].title : k \in 1..Len(ins)} \cap T

\* the rows with one column blanked
WithoutEfficiency(ts) ==
    [i \in 1..Len(ts) |-> [ecoScore |-> ts[i].ecoScore, efficiency |-> NULL]]
WithoutEcoScore(ts) ==
    [i \in 1..Len(ts) |-> [ecoScore |-> NULL, efficiency |-> ts[i].efficiency]]
WithoutThrottle(od) ==
    [i \in 1..Len(od) |-> [engineRPM |-> od[i].engineRPM, throttlePosition |-> NULL]]
WithoutRPM(od) ==
    [i \in 1..Len(od) |-> [engineRPM |-> NULL, throttlePosition |-> od[i].throttlePosition]]

\* C24: the telemetry insights of the answer are those the same telemetry
\* gives with no trips at all, and the trip insights those the same trips
\* give with no telemetry, so neither list influences the other's rules; and
\* each rule gives the same result when the other column of its rows is
\* blanked.
C24_RuleIndependence ==
    Answered =>
        /\ TitlesAmong(Insights, TelemetryTitles)
              = TitlesAmong(generateInsights(<<>>, obdData), TelemetryTitles)
        /\ TitlesAmong(Insights, TripTitles)
              = TitlesAmong(generateInsights(trips, <<>>), TripTitles)
        /\ TitlesAmong(Insights, {"Low Eco Score", "Excellent Driving"})
              = TitlesAmong(generateInsights(WithoutEfficiency(trips), <<>>),
                            {"Low Eco Score", "Excellent Driving"})
        /\ TitlesAmong(Insights, {"High Fuel Consumption"})
              = TitlesAmong(generateInsights(WithoutEcoScore(trips), <<>>),
                            {"High Fuel Consumption"})
        /\ TitlesAmong(Insights, {"High RPM Driving"})
              = TitlesAmong(generateInsights(<<>>, WithoutThrottle(obdData)),
                            {"High RPM Driving"})
        /\ TitlesAmong(Insights, {"Aggressive Acceleration"})
              = TitlesAmong(generateInsights(<<>>, WithoutRPM(obdData)),
                            {"Aggressive Acceleration"})

\* telemetry insights answered for a user without trips
C24_Witness ==
    /\ Answered /\ trips = <<>> /\ Len(obdData) = 3
    /\ TitlesAmong(Insights, TelemetryTitles) = TelemetryTitles

-----------------------------------------------------------------------------
(* Properties of successive invocations *)

\* the same values in the same order under other timestamps and counts
Restamped(data) ==
    [i \in 1..Len(data) |->
        [timestamp |-> DayKey(toISOString((Len(data) - i) * 7 * 1440)),
         value     |-> data[i].value,
         count     |-> i + 1]]

\* C25: the direction is the one the same values give under any timestamps
\* and counts, and classifying the same buckets a second time in the same
\* process gives the direction of the first time.
C25_TrendDeterminism ==
    /\ direction # "none" => direction = calculateTrendDirection(Restamped(buckets))
    /\ (Len(served) = 1 /\ served[1].direction # "none" /\ direction # "none") =>
          direction = served[1].direction

\* six buckets classified twice, improving both times
C25_Witness ==
    /\ pc = "done" /\ Len(served) = 1 /\ Len(buckets) = 6
    /\ served[1].direction = "improving"
    /\ direction = "improving"

\* the answer of the current invocation computed from its inputs alone
AnswerAlone ==
    CASE response.route = "obd" ->
             response.data = groupDataByInterval(SelectRows(table, 1), interval)
      [] response.route = "analytics" ->
             /\ response.data = groupTrendsByInterval(SelectRows(table, 1), interval)
             /\ response.trendDirection = calculateTrendDirection(response.data)
      [] response.route = "insights" ->
             response.insights = generateInsights(trips, obdData)
      [] OTHER -> TRUE

\* C26: no invocation changes the sequences it is given (rows, buckets,
\* trips, telemetry); the rows the query returned are still what the
\* aggregator was handed; and an answer is the one its inputs give alone,
\* whatever was invoked before it, so a repeated request is answered alike.
C26_Purity ==
    /\ [][/\ table' = table
          /\ buckets' = buckets
          /\ trips' = trips
          /\ obdData' = obdData]_vars
    /\ [](pc = "done" =>
            /\ AnswerAlone
            /\ response.route \in {"obd", "analytics"} => series = SelectRows(table, 1)
            /\ (Len(served) = 1 /\ served[1].response.route = response.route) =>
                  response = served[1].response)

\* the weekly analytics request served twice with the same answer
C26_Witness ==
    /\ pc = "done" /\ Len(served) = 1
    /\ served[1].response.route = "analytics" /\ response.route = "analytics"
    /\ interval = "1w" /\ Len(table) = 2 /\ Len(response.data) = 2
    /\ response = served[1].response

\* C27: for every series and every interval token the OBD aggregator and
\* the analytics aggregator give the same bucket keys, means and counts.
C27_AggregatorsAgree ==
    Done => groupDataByInterval(series, interval) = groupTrendsByInterval(series, interval)

-----------------------------------------------------------------------------
(* Properties of the socket registry *)

\* C28: once a socket has disconnected no entry of connectedUsers holds its
\* id, and every userRooms entry belongs to a user that some connected
\* socket is authenticated as.
C28_RegistryCleanup ==
    /\ \A s \in Sockets :
          sockets[s] = "disconnected" =>
              \A j \in 1..Len(connectedUsers) : connectedUsers[j].value # s
    /\ \A j \in 1..Len(userRooms) :
          \E s \in Sockets :
              sockets[s] = "connected" /\ userRooms[j].value \in joined[s]

-----------------------------------------------------------------------------
(* Properties of the OBD polling timer *)

\* C29: at most one polling interval is active at any time, and a
\* disconnect() that leaves no connectToDevice call in flight leaves no
\* polling interval active and isConnected false.
C29_SinglePollingTimer ==
    /\ [](Cardinality(activeTimers) <= 1)
    /\ [][(disconnect /\ InFlight = {}) =>
            (activeTimers' = {} /\ isConnected' = FALSE)]_vars

-----------------------------------------------------------------------------
(* Properties of route tracking *)

\* C30: a stopTracking that ends a route returns exactly the positions
\* delivered for that route since its startTracking and empties routeData;
\* routeData is empty whenever no route is being tracked; and a route holds
\* only positions asked for by its own startTracking.
C30_RouteIsolation ==
    /\ [][(stopTracking /\ isTracking) =>
            (finalRoute' = delivered /\ routeData' = <<>>)]_vars
    /\ [](~isTracking => routeData = <<>>)
    /\ [](\A i \in 1..Len(routeData) : routeData[i].session = session)

====
